---- MODULE Spec2Model ----
(***************************************************************************)
(* Model of main.py: the two webapp2 request handlers AlbumsHandler and    *)
(* ThumbnailHandler, their outbound fetches and the responses they write.  *)
(* Python strings are modelled as sequences of one-character strings, so   *)
(* that quoting, prefix tests, substring tests and formatting are computed *)
(* character by character, as the library calls compute them.              *)
(***************************************************************************)
EXTENDS Integers, Sequences, FiniteSets, TLC

\* ------------------------------------------------------------------ bounds
MaxReqs == 2
MaxAlbums == 2

\* --------------------------------------------------------------- constants
CFG_URL == <<"h","t","t","p","s",":","/","/","w","w","w",".","d","r","o","p","b","o","x",".","c","o","m","/","s","/","k","r","8","e","w","c","6","8","h","u","s","t","s","5","7","/","a","l","b","u","m","s",".","j","s","o","n","?","d","l","=","1">>
ACCESS_TOKEN == <<"w","T","h","l","2","1","0","K","p","x","4","A","A","A","A","A","A","A","A","7","4","9","U","i","e","N","r","e","x","m","9","F","5","V","J","3","e","O","d","r","E","B","0","X","5","I","_","L","m","i","D","j","Q","2","F","T","7","g","M","o","l","n","E","l">>
THUMBNAIL_BASE == <<"h","t","t","p","s",":","/","/","a","p","i","-","c","o","n","t","e","n","t",".","d","r","o","p","b","o","x",".","c","o","m","/","1","/","t","h","u","m","b","n","a","i","l","s","/","a","u","t","o","/">>

OK == 200
BAD_REQUEST == 400
FORBIDDEN == 403
INTERNAL_SERVER_ERROR == 500

\* ---------------------------------------------------------- string helpers
\* Printable ASCII in code order: Printable[i] is chr(31 + i).
Printable == <<" ","!","\"","#","$","%","&","'","(",")","*","+",",","-",".","/","0","1","2","3","4","5","6","7","8","9",":",";","<","=",">","?","@","A","B","C","D","E","F","G","H","I","J","K","L","M","N","O","P","Q","R","S","T","U","V","W","X","Y","Z","[","\\","]","^","_","grave","a","b","c","d","e","f","g","h","i","j","k","l","m","n","o","p","q","r","s","t","u","v","w","x","y","z","{","|","}","~">>

Ord(c) == 31 + (CHOOSE i \in 1..Len(Printable) : Printable[i] = c)

HexDigits == <<"0","1","2","3","4","5","6","7","8","9","A","B","C","D","E","F">>

LowerHex == <<"0","1","2","3","4","5","6","7","8","9","a","b","c","d","e","f">>

IsHex(c) == \E i \in 1..16 : HexDigits[i] = c \/ LowerHex[i] = c

HexVal(c) == (CHOOSE i \in 1..16 : HexDigits[i] = c \/ LowerHex[i] = c) - 1

\* chr(n) for a decoded escape; codes outside printable ASCII are one
\* opaque character.
Chr(n) == IF n >= 32 /\ n <= 126 THEN Printable[n - 31] ELSE "\\x"

\* str.startswith
StartsWith(s, p) == Len(s) >= Len(p) /\ SubSeq(s, 1, Len(p)) = p

\* str.endswith
EndsWith(s, p) == Len(s) >= Len(p) /\ SubSeq(s, Len(s) - Len(p) + 1, Len(s)) = p

\* the Python operator  p in s  on strings
Contains(s, p) == \E i \in 1..(Len(s) - Len(p) + 1) : SubSeq(s, i, i + Len(p) - 1) = p

\* index of the first occurrence of character c in s, 0 if none
IndexOf(s, c) == IF \E i \in 1..Len(s) : s[i] = c THEN CHOOSE i \in 1..Len(s) : s[i] = c /\ \A j \in 1..(i - 1) : s[j] # c ELSE 0

RECURSIVE Split(_, _)
\* str.split(c) for a one-character separator
Split(s, c) == IF IndexOf(s, c) = 0 THEN <<s>> ELSE <<SubSeq(s, 1, IndexOf(s, c) - 1)>> \o Split(SubSeq(s, IndexOf(s, c) + 1, Len(s)), c)

RECURSIVE IntToStr(_)
\* the %d conversion of a non-negative integer
IntToStr(n) == IF n < 10 THEN <<HexDigits[n + 1]>> ELSE IntToStr(n \div 10) \o <<HexDigits[(n % 10) + 1]>>

\* --------------------------------------------------------------- urllib
\* characters urllib.quote never escapes, plus its default safe='/'
AlwaysSafe == <<"A","B","C","D","E","F","G","H","I","J","K","L","M","N","O","P","Q","R","S","T","U","V","W","X","Y","Z","a","b","c","d","e","f","g","h","i","j","k","l","m","n","o","p","q","r","s","t","u","v","w","x","y","z","0","1","2","3","4","5","6","7","8","9","_",".","-">>

IsSafe(c) == c = "/" \/ \E i \in 1..Len(AlwaysSafe) : AlwaysSafe[i] = c

QuoteCharPlusSafe(c) == IF IsSafe(c) \/ c = "+" THEN <<c>> ELSE <<"%", HexDigits[(Ord(c) \div 16) + 1], HexDigits[(Ord(c) % 16) + 1]>>

\* one character of urllib.quote's output
QuoteChar(c) == IF IsSafe(c) THEN <<c>> ELSE <<"%", HexDigits[(Ord(c) \div 16) + 1], HexDigits[(Ord(c) % 16) + 1]>>

RECURSIVE quote(_)
\* urllib.quote(s)
quote(s) == IF s = <<>> THEN <<>> ELSE QuoteChar(Head(s)) \o quote(Tail(s))

RECURSIVE unquote(_)
\* urllib.unquote(s): a %XX escape with two hex digits is decoded, any
\* other % is kept
unquote(s) == IF s = <<>> THEN <<>> ELSE IF s[1] = "%" /\ Len(s) >= 3 /\ IsHex(s[2]) /\ IsHex(s[3]) THEN <<Chr(16 * HexVal(s[2]) + HexVal(s[3]))>> \o unquote(SubSeq(s, 4, Len(s))) ELSE <<s[1]>> \o unquote(Tail(s))

\* str.replace('+', ' ')
PlusToSpace(s) == [i \in 1..Len(s) |-> IF s[i] = "+" THEN " " ELSE s[i]]

\* os.path.join(a, b) on a POSIX host
path_join(a, b) == IF StartsWith(b, <<"/">>) THEN b ELSE IF a = <<>> \/ EndsWith(a, <<"/">>) THEN a \o b ELSE a \o <<"/">> \o b


\* ------------------------------------------------------ optional values
\* None is the empty tuple, a present value v is <<v>>.
None == <<>>

Some(v) == <<v>>

IsNone(o) == Len(o) = 0

\* dict[k] = v on a Python dict modelled as a function
Put(d, k, v) == [x \in (DOMAIN d) \cup {k} |-> IF x = k THEN v ELSE d[x]]

\* ----------------------------------------------------- routes and query
ALBUMS_ROUTE == <<"/","a","l","b","u","m","s","/">>

THUMBNAIL_ROUTE == <<"/","a","l","b","u","m","s","/","t","h","u","m","b","n","a","i","l">>

\* RequestHandler.uri_for(name) over the routes table
uri_for(name) == IF name = "thumbnail" THEN THUMBNAIL_ROUTE ELSE ALBUMS_ROUTE

UrlPath(url) == IF IndexOf(url, "?") = 0 THEN url ELSE SubSeq(url, 1, IndexOf(url, "?") - 1)

QueryString(url) == IF IndexOf(url, "?") = 0 THEN <<>> ELSE SubSeq(url, IndexOf(url, "?") + 1, Len(url))

\* the handler the routes table dispatches a request URL to
RouteOf(url) == IF UrlPath(url) = ALBUMS_ROUTE THEN "albums" ELSE IF UrlPath(url) = THUMBNAIL_ROUTE THEN "thumbnail" ELSE "none"

RECURSIVE SplitAll(_, _)
\* every field of every element of ss, split on c
SplitAll(ss, c) == IF Len(ss) = 0 THEN <<>> ELSE Split(Head(ss), c) \o SplitAll(Tail(ss), c)

NonEmpty(s) == Len(s) > 0

\* one name=value field of a query string, both sides decoded
ParsePair(nv) == IF IndexOf(nv, "=") = 0 THEN <<unquote(PlusToSpace(nv)), <<>>>> ELSE <<unquote(PlusToSpace(SubSeq(nv, 1, IndexOf(nv, "=") - 1))), unquote(PlusToSpace(SubSeq(nv, IndexOf(nv, "=") + 1, Len(nv))))>>

\* request.GET: the decoded (name, value) pairs of the query string,
\* blank values kept
ParseQsl(qs) == LET fields == SelectSeq(SplitAll(Split(qs, "&"), ";"), NonEmpty) IN [i \in 1..Len(fields) |-> ParsePair(fields[i])]

GET_get_blank(items, key) == IF \E i \in 1..Len(items) : items[i][1] = key THEN Some(items[CHOOSE i \in 1..Len(items) : items[i][1] = key /\ \A j \in (i + 1)..Len(items) : items[j][1] # key][2]) ELSE Some(<<>>)

\* request.GET.get(key): the value of the parameter, None when absent
GET_get(items, key) == IF \E i \in 1..Len(items) : items[i][1] = key THEN Some(items[CHOOSE i \in 1..Len(items) : items[i][1] = key /\ \A j \in (i + 1)..Len(items) : items[j][1] # key][2]) ELSE None

\* ------------------------------------------------------------ responses
\* the response a handler starts from: default status, no content type
\* set by the handler, empty body
DefaultResponse == [status |-> OK, content_type |-> None, body |-> <<>>]

\* response.write(s)
Write(resp, s) == [resp EXCEPT !.body = @ \o s]

\* webapp2.abort(code): the request ends with that status and nothing
\* the handler wrote
Abort(code) == [status |-> code, content_type |-> None, body |-> <<>>]

\* an exception that leaves the handler
Raise == [status |-> INTERNAL_SERVER_ERROR, content_type |-> None, body |-> <<>>]

\* ------------------------------------------------------ ThumbnailHandler
PHOTOS == <<"p","h","o","t","o","s">>

PATH == <<"p","a","t","h">>

PathAllowedAnywhere(src_path) == Contains(src_path, PHOTOS)

\* src_path.startswith('photos')
PathAllowed(src_path) == StartsWith(src_path, PHOTOS)

\* the URL handed to urlfetch.fetch
ThumbnailUrl(src_path) == path_join(THUMBNAIL_BASE, quote(src_path)) \o <<"?","s","i","z","e","=","l">>

NoHeaders == [h \in {} |-> <<>>]

\* the headers handed to urlfetch.fetch
ThumbnailHeaders == [h \in {"Authorization"} |-> <<"B","e","a","r","e","r"," ">> \o ACCESS_TOKEN]

UpstreamFailureFlat(rsp) == Abort(INTERNAL_SERVER_ERROR)

\* the else branch: webapp2.abort(rsp.status_code)
UpstreamFailure(rsp) == Abort(rsp.status_code)

\* the response written from the result of urlfetch.fetch; a fetch that
\* raises, or a 200 without a Content-Type header (KeyError), leaves the
\* handler as an exception
ThumbnailRespond(rsp) == IF rsp.kind = "error" THEN Raise ELSE IF rsp.status_code = OK THEN (IF "Content-Type" \in DOMAIN rsp.headers THEN Write([DefaultResponse EXCEPT !.content_type = Some(rsp.headers["Content-Type"])], rsp.content) ELSE Raise) ELSE UpstreamFailure(rsp)

\* where the handler stands after urlfetch.fetch returned
ThumbnailAfterFetch(rsp) == "done"

\* --------------------------------------------------------- AlbumsHandler
ManifestHeadersWithToken == [h \in {"Authorization"} |-> <<"B","e","a","r","e","r"," ">> \o ACCESS_TOKEN]

\* urllib2.urlopen(CFG_URL) sends no headers of the handler's
ManifestHeaders == NoHeaders

show_error_status(resp, s) == [status |-> INTERNAL_SERVER_ERROR, content_type |-> None, body |-> <<"<","h","3",">","E","r","r","o","r","!","<","/","h","3",">","<","d","i","v",">">> \o s \o <<"<","/","d","i","v",">">>]

\* AlbumsHandler.show_error
show_error(resp, s) == Write(resp, <<"<","h","3",">","E","r","r","o","r","!","<","/","h","3",">","<","d","i","v",">">> \o s \o <<"<","/","d","i","v",">">>)

\* str(e) of a urllib2.URLError
URLErrorStr(reason) == <<"<","u","r","l","o","p","e","n"," ","e","r","r","o","r"," ">> \o reason \o <<">">>

HTTPErrorMessage(code, reason) == <<"F","a","i","l","e","d"," ","t","o"," ","f","e","t","c","h"," ","a","l","b","u","m","s"," ","l","i","s","t"," ","(","h","t","t","p"," ">> \o IntToStr(code) \o <<":"," ">> \o reason \o <<")">>

URLErrorMessage(reason) == <<"F","a","i","l","e","d"," ","t","o"," ","f","e","t","c","h"," ","a","l","b","u","m","s"," ","l","i","s","t"," ","(">> \o URLErrorStr(reason) \o <<")">>

CoverUrlRaw(cover_path) == uri_for("thumbnail") \o <<"?","p","a","t","h","=">> \o cover_path

\* the value stored under album['cover_url']
CoverUrl(cover_path) == uri_for("thumbnail") \o <<"?","p","a","t","h","=">> \o quote(cover_path)

\* the cover_url step of the album loop
SetCover(album) == IF "cover_path" \in DOMAIN album THEN Put(album, "cover_url", CoverUrl(album["cover_path"])) ELSE album

DROPBOX == <<"d","r","o","p","b","o","x",".","c","o","m">>

GPLUS == <<"p","l","u","s",".","g","o","o","g","l","e",".","c","o","m">>

Dropbox(album) == Put(Put(Put(album, "icon", <<"/","i","m","a","g","e","s","/","d","r","o","p","b","o","x","-","i","c","o","n",".","p","n","g">>), "icon_alt", <<"D","r","o","p","b","o","x">>), "icon_height", <<"4","0","p","x">>)

GooglePlus(album) == Put(Put(Put(album, "icon", <<"/","i","m","a","g","e","s","/","g","p","l","u","s","-","i","c","o","n",".","s","v","g">>), "icon_alt", <<"G","o","o","g","l","e","+">>), "icon_height", <<"3","2","p","x">>)

SetIconGoogleFirst(album) == IF Contains(album["url"], GPLUS) THEN GooglePlus(album) ELSE IF Contains(album["url"], DROPBOX) THEN Dropbox(album) ELSE album

\* the icon step of the album loop
SetIcon(album) == IF Contains(album["url"], DROPBOX) THEN Dropbox(album) ELSE IF Contains(album["url"], GPLUS) THEN GooglePlus(album) ELSE album

\* the body of the loop over cfg['albums']
DeriveAlbum(album) == SetIcon(SetCover(album))

\* cfg after the loop
DeriveCfg(cfg) == [cfg EXCEPT !.albums = [i \in 1..Len(cfg.albums) |-> DeriveAlbum(cfg.albums[i])]]

\* template.render(cfg): the page text, one opaque piece
Render(cfg) == <<"albums.html">>

AlbumsRetryOnFailure(res) == IF res.kind = "ok" THEN "done" ELSE "idle"

\* where the handler stands after urlopen returned or raised
AlbumsAfterFetch(res) == "done"

\* the response written from the outcome of urlopen
AlbumsRespond(res) == IF res.kind = "HTTPError" THEN show_error(DefaultResponse, HTTPErrorMessage(res.code, res.reason)) ELSE IF res.kind = "URLError" THEN show_error(DefaultResponse, URLErrorMessage(res.reason)) ELSE IF ~res.json_valid THEN Raise ELSE Write(DefaultResponse, Render(DeriveCfg(res.cfg)))

\* the calls the handler made after urlopen
AlbumsCalls(res) == IF res.kind \in {"HTTPError", "URLError"} THEN <<"show_error", "write">> ELSE IF ~res.json_valid THEN <<"json.load">> ELSE <<"json.load", "render", "write">>

\* ---------------------------------------------------------------- state
VARIABLES pc, request, response, sent, replies, calls, rendered

vars == <<pc, request, response, sent, replies, calls, rendered>>

\* the requests the server handles, possibly concurrently
Reqs == 1..MaxReqs

Init == /\ pc = [r \in Reqs |-> "idle"]
        /\ request = [r \in Reqs |-> <<>>]
        /\ response = [r \in Reqs |-> DefaultResponse]
        /\ sent = [r \in Reqs |-> <<>>]
        /\ replies = [r \in Reqs |-> <<>>]
        /\ calls = [r \in Reqs |-> <<>>]
        /\ rendered = [r \in Reqs |-> <<>>]

\* ThumbnailHandler.get up to the point where urlfetch.fetch blocks
ThumbnailGet(r, url) ==
    /\ pc[r] = "idle"
    /\ RouteOf(url) = "thumbnail"
    /\ request' = [request EXCEPT ![r] = url]
    /\ LET src_path == GET_get(ParseQsl(QueryString(url)), PATH) IN
         IF IsNone(src_path)
         THEN /\ response' = [response EXCEPT ![r] = Abort(BAD_REQUEST)]
              /\ calls' = [calls EXCEPT ![r] = @ \o <<"GET.get", "abort">>]
              /\ pc' = [pc EXCEPT ![r] = "done"]
              /\ UNCHANGED sent
         ELSE IF ~PathAllowed(src_path[1])
         THEN /\ response' = [response EXCEPT ![r] = Abort(FORBIDDEN)]
              /\ calls' = [calls EXCEPT ![r] = @ \o <<"GET.get", "startswith", "abort">>]
              /\ pc' = [pc EXCEPT ![r] = "done"]
              /\ UNCHANGED sent
         ELSE /\ sent' = [sent EXCEPT ![r] = Append(@, [url |-> ThumbnailUrl(src_path[1]), headers |-> ThumbnailHeaders])]
              /\ calls' = [calls EXCEPT ![r] = @ \o <<"GET.get", "startswith", "urlfetch.fetch">>]
              /\ pc' = [pc EXCEPT ![r] = "fetching"]
              /\ UNCHANGED response
    /\ UNCHANGED <<replies, rendered>>

\* ThumbnailHandler.get from the return of urlfetch.fetch to the end
ThumbnailFetchReturn(r, rsp) ==
    /\ pc[r] = "fetching"
    /\ RouteOf(request[r]) = "thumbnail"
    /\ replies' = [replies EXCEPT ![r] = Append(@, rsp)]
    /\ response' = [response EXCEPT ![r] = ThumbnailRespond(rsp)]
    /\ pc' = [pc EXCEPT ![r] = ThumbnailAfterFetch(rsp)]
    /\ UNCHANGED <<request, sent, calls, rendered>>

\* AlbumsHandler.get up to the point where urlopen blocks
AlbumsGet(r, url) ==
    /\ pc[r] = "idle"
    /\ RouteOf(url) = "albums"
    /\ request' = [request EXCEPT ![r] = url]
    /\ sent' = [sent EXCEPT ![r] = Append(@, [url |-> CFG_URL, headers |-> ManifestHeaders])]
    /\ calls' = [calls EXCEPT ![r] = @ \o <<"urlopen">>]
    /\ pc' = [pc EXCEPT ![r] = "fetching"]
    /\ UNCHANGED <<response, replies, rendered>>

\* AlbumsHandler.get from the outcome of urlopen to the end
AlbumsFetchReturn(r, res) ==
    /\ pc[r] = "fetching"
    /\ RouteOf(request[r]) = "albums"
    /\ replies' = [replies EXCEPT ![r] = Append(@, res)]
    /\ response' = [response EXCEPT ![r] = AlbumsRespond(res)]
    /\ calls' = [calls EXCEPT ![r] = @ \o AlbumsCalls(res)]
    /\ rendered' = [rendered EXCEPT ![r] = IF res.kind = "ok" /\ res.json_valid THEN <<DeriveCfg(res.cfg)>> ELSE @]
    /\ pc' = [pc EXCEPT ![r] = AlbumsAfterFetch(res)]
    /\ UNCHANGED <<request, sent>>

\* ------------------------------------------------------ the environment
\* what urlfetch.fetch can return or raise
UpstreamResponses == {
    [kind |-> "response", status_code |-> 200, headers |-> [h \in {"Content-Type"} |-> <<"i","m","a","g","e","/","j","p","e","g">>], content |-> <<"B">>],
    [kind |-> "response", status_code |-> 200, headers |-> [h \in {"Content-Type", "ETag"} |-> IF h = "ETag" THEN <<"7">> ELSE <<"i","m","a","g","e","/","p","n","g">>], content |-> <<>>],
    [kind |-> "response", status_code |-> 200, headers |-> NoHeaders, content |-> <<"B">>],
    [kind |-> "response", status_code |-> 404, headers |-> [h \in {"Content-Type"} |-> <<"t","e","x","t","/","p","l","a","i","n">>], content |-> <<"n","f">>],
    [kind |-> "response", status_code |-> 500, headers |-> NoHeaders, content |-> <<>>],
    [kind |-> "error", status_code |-> 0, headers |-> NoHeaders, content |-> <<>>]}

\* albums as the manifest lists them
AlbumDropbox == ("url" :> <<"d","r","o","p","b","o","x",".","c","o","m","/","a">>) @@ ("cover_path" :> <<"p","h","o","t","o","s","/","a"," ","b",".","j","p","g">>)

AlbumGoogle == ("url" :> <<"p","l","u","s",".","g","o","o","g","l","e",".","c","o","m","/","b">>)

AlbumBoth == ("url" :> <<"p","l","u","s",".","g","o","o","g","l","e",".","c","o","m","/","d","r","o","p","b","o","x",".","c","o","m">>) @@ ("cover_path" :> <<"s","e","c","r","e","t","s","/","x">>)

AlbumOther == ("url" :> <<"e","x","a","m","p","l","e",".","o","r","g">>) @@ ("cover_path" :> <<>>)

AlbumOwnIcon == ("url" :> <<"d","r","o","p","b","o","x",".","c","o","/","m">>) @@ ("icon_alt" :> <<"M","i","n","e">>) @@ ("cover_path" :> <<"p","h","o","t","o","s","/","a","+","b","%">>)

AlbumOwnCover == ("url" :> <<"f","l","i","c","k","r",".","c","o","m">>) @@ ("cover_url" :> <<"/","c",".","p","n","g">>)

AlbumGoogleCover == ("url" :> <<"p","l","u","s",".","g","o","o","g","l","e",".","c","o","m","/","c">>) @@ ("cover_path" :> <<"p","h","o","t","o","s">>) @@ ("icon" :> <<"/","o","l","d",".","p","n","g">>)

AlbumPool == {AlbumDropbox, AlbumGoogle, AlbumBoth, AlbumOther, AlbumOwnIcon, AlbumOwnCover, AlbumGoogleCover}

Manifest(albums) == [albums |-> albums, title |-> <<"P","h","o","t","o","s">>]

OkResult(albums) == [kind |-> "ok", json_valid |-> TRUE, cfg |-> Manifest(albums)]

\* outcomes of urlopen that are not a usable manifest
FailedResults == {
    [kind |-> "HTTPError", code |-> 500, reason |-> <<"I","n","t","e","r","n","a","l"," ","S","e","r","v","e","r"," ","E","r","r","o","r">>],
    [kind |-> "HTTPError", code |-> 404, reason |-> <<"N","o","t"," ","F","o","u","n","d">>],
    [kind |-> "URLError", reason |-> <<"t","i","m","e","d"," ","o","u","t">>],
    [kind |-> "ok", json_valid |-> FALSE, cfg |-> Manifest(<<>>)]}

\* outcomes of urlopen(CFG_URL) for the concurrent-requests specification
ManifestResults == FailedResults \cup {OkResult(<<>>), OkResult(<<AlbumDropbox>>), OkResult(<<AlbumGoogle, AlbumBoth>>)}

\* every manifest of at most MaxAlbums albums from the pool
PoolResults == FailedResults \cup {OkResult(albums) : albums \in UNION {[1..n -> AlbumPool] : n \in 0..MaxAlbums}}

\* request URLs a client may send
RequestUrls == {
    <<"/","a","l","b","u","m","s","/">>,
    <<"/","a","l","b","u","m","s","/","t","h","u","m","b","n","a","i","l">>,
    <<"/","a","l","b","u","m","s","/","t","h","u","m","b","n","a","i","l","?","s","i","z","e","=","l">>,
    <<"/","a","l","b","u","m","s","/","t","h","u","m","b","n","a","i","l","?","p","a","t","h","=">>,
    <<"/","a","l","b","u","m","s","/","t","h","u","m","b","n","a","i","l","?","p","a","t","h","=","s","e","c","r","e","t","s","/","x">>,
    <<"/","a","l","b","u","m","s","/","t","h","u","m","b","n","a","i","l","?","p","a","t","h","=","m","y","/","p","h","o","t","o","s">>,
    <<"/","a","l","b","u","m","s","/","t","h","u","m","b","n","a","i","l","?","p","a","t","h","=","p","h","o","t","o">>,
    <<"/","a","l","b","u","m","s","/","t","h","u","m","b","n","a","i","l","?","p","a","t","h","=","p","h","o","t","o","s","/","x",".","j","p","g">>,
    <<"/","a","l","b","u","m","s","/","t","h","u","m","b","n","a","i","l","?","s","i","z","e","=","l","&","p","a","t","h","=","p","h","o","t","o","s","%","2","F","a","+","b",".","j","p","g">>}

\* the cover URLs of the page request r rendered
CoverUrls(r) == IF Len(rendered[r]) = 0 THEN {} ELSE {rendered[r][1].albums[i]["cover_url"] : i \in {j \in 1..Len(rendered[r][1].albums) : "cover_url" \in DOMAIN rendered[r][1].albums[j]}}

\* ------------------------------------------------------- specifications
\* any requests, handled concurrently
Next ==
    \/ \E r \in Reqs, url \in RequestUrls : ThumbnailGet(r, url)
    \/ \E r \in Reqs, rsp \in UpstreamResponses : ThumbnailFetchReturn(r, rsp)
    \/ \E r \in Reqs, url \in RequestUrls : AlbumsGet(r, url)
    \/ \E r \in Reqs, res \in ManifestResults : AlbumsFetchReturn(r, res)

Spec == Init /\ [][Next]_vars

\* one albums page, then the browser loading a cover image of that page
NextAlbums ==
    \/ AlbumsGet(1, ALBUMS_ROUTE)
    \/ \E res \in PoolResults : AlbumsFetchReturn(1, res)
    \/ \E url \in CoverUrls(1) : ThumbnailGet(2, url)
    \/ \E rsp \in UpstreamResponses : ThumbnailFetchReturn(2, rsp)

SpecAlbums == Init /\ [][NextAlbums]_vars

\* ------------------------------------------------------------ properties
\* the request carries a query parameter named path
HasPathParam(url) == \E i \in 1..Len(ParseQsl(QueryString(url))) : ParseQsl(QueryString(url))[i][1] = PATH

\* the value of the path parameter of a request that carries one
PathParam(url) == ParseQsl(QueryString(url))[CHOOSE i \in 1..Len(ParseQsl(QueryString(url))) : ParseQsl(QueryString(url))[i][1] = PATH /\ \A j \in (i + 1)..Len(ParseQsl(QueryString(url))) : ParseQsl(QueryString(url))[j][1] # PATH][2]

IsThumbnail(r) == pc[r] # "idle" /\ RouteOf(request[r]) = "thumbnail"

IsAlbums(r) == pc[r] # "idle" /\ RouteOf(request[r]) = "albums"

\* the request got its fetch result and that result is an upstream response
GotResponse(r) == IsThumbnail(r) /\ pc[r] = "done" /\ Len(replies[r]) = 1 /\ replies[r][1].kind = "response"

C3_SuccessProxy == \A r \in Reqs : (GotResponse(r) /\ replies[r][1].status_code = 200) =>
    /\ response[r].status = 200
    /\ response[r].body = replies[r][1].content
    /\ "Content-Type" \in DOMAIN replies[r][1].headers => response[r].content_type = <<replies[r][1].headers["Content-Type"]>>

ErrorPage(m) == <<"<","h","3",">","E","r","r","o","r","!","<","/","h","3",">","<","d","i","v",">">> \o m \o <<"<","/","d","i","v",">">>

\* C5: when the manifest fetch fails with an HTTP error (code c, reason r)
\* or a transport error e, the request completes with the default success
\* status and the body <h3>Error!</h3><div>M</div>, M being
\* "Failed to fetch albums list (http c: r)" or
\* "Failed to fetch albums list (str(e))"; the manifest is not parsed and
\* the template is not rendered.
C5_FetchFailure == \A r \in Reqs : (IsAlbums(r) /\ Len(replies[r]) = 1 /\ replies[r][1].kind \in {"HTTPError", "URLError"}) =>
    /\ pc[r] = "done"
    /\ response[r].status = 200
    /\ replies[r][1].kind = "HTTPError" => response[r].body = ErrorPage(<<"F","a","i","l","e","d"," ","t","o"," ","f","e","t","c","h"," ","a","l","b","u","m","s"," ","l","i","s","t"," ","(","h","t","t","p"," ">> \o IntToStr(replies[r][1].code) \o <<":"," ">> \o replies[r][1].reason \o <<")">>)
    /\ (replies[r][1].kind = "HTTPError" /\ replies[r][1].code = 500) => response[r].body = <<"<","h","3",">","E","r","r","o","r","!","<","/","h","3",">","<","d","i","v",">","F","a","i","l","e","d"," ","t","o"," ","f","e","t","c","h"," ","a","l","b","u","m","s"," ","l","i","s","t"," ","(","h","t","t","p"," ","5","0","0",":"," ","I","n","t","e","r","n","a","l"," ","S","e","r","v","e","r"," ","E","r","r","o","r",")","<","/","d","i","v",">">>
    /\ replies[r][1].kind = "URLError" => response[r].body = ErrorPage(<<"F","a","i","l","e","d"," ","t","o"," ","f","e","t","c","h"," ","a","l","b","u","m","s"," ","l","i","s","t"," ","(","<","u","r","l","o","p","e","n"," ","e","r","r","o","r"," ">> \o replies[r][1].reason \o <<">",")">>)
    /\ rendered[r] = <<>>
    /\ \A i \in 1..Len(calls[r]) : calls[r][i] \notin {"json.load", "render"}

C5_Witness == \E r, q \in Reqs : /\ IsAlbums(r) /\ Len(replies[r]) = 1 /\ replies[r][1].kind = "HTTPError" /\ replies[r][1].code = 500 /\ response[r].body # <<>>
                                 /\ IsAlbums(q) /\ Len(replies[q]) = 1 /\ replies[q][1].kind = "URLError" /\ response[q].body # <<>>

\* the albums request of SpecAlbums got a manifest and rendered the page
PageRendered == pc[1] = "done" /\ IsAlbums(1) /\ Len(replies[1]) = 1 /\ replies[1][1].kind = "ok" /\ replies[1][1].json_valid

\* the albums of the manifest as fetched, and as passed to the template
AlbumsIn == replies[1][1].cfg.albums

AlbumsOut == rendered[1][1].albums

IconKeys == {"icon", "icon_alt", "icon_height"}

\* key k of album a is what the manifest's album b had under it
Untouched(a, b, k) == (k \in DOMAIN a <=> k \in DOMAIN b) /\ (k \in DOMAIN b => a[k] = b[k])

\* C6: for every album of a fetched manifest: a url containing dropbox.com
\* gets the Dropbox icon (also when it contains plus.google.com too);
\* otherwise a url containing plus.google.com gets the Google+ icon;
\* otherwise the handler sets none of icon, icon_alt, icon_height. The
\* albums passed to the template are those of the manifest, in order.
C6_IconSelection == PageRendered =>
    /\ Len(rendered[1]) = 1
    /\ Len(AlbumsOut) = Len(AlbumsIn)
    /\ \A i \in 1..Len(AlbumsIn) :
        /\ AlbumsOut[i]["url"] = AlbumsIn[i]["url"]
        /\ \A k \in (DOMAIN AlbumsIn[i]) \ (IconKeys \cup {"cover_url"}) : Untouched(AlbumsOut[i], AlbumsIn[i], k)
        /\ IF Contains(AlbumsIn[i]["url"], DROPBOX)
           THEN AlbumsOut[i]["icon_alt"] = <<"D","r","o","p","b","o","x">> /\ AlbumsOut[i]["icon"] = <<"/","i","m","a","g","e","s","/","d","r","o","p","b","o","x","-","i","c","o","n",".","p","n","g">> /\ AlbumsOut[i]["icon_height"] = <<"4","0","p","x">>
           ELSE IF Contains(AlbumsIn[i]["url"], GPLUS)
           THEN AlbumsOut[i]["icon_alt"] = <<"G","o","o","g","l","e","+">> /\ AlbumsOut[i]["icon"] = <<"/","i","m","a","g","e","s","/","g","p","l","u","s","-","i","c","o","n",".","s","v","g">> /\ AlbumsOut[i]["icon_height"] = <<"3","2","p","x">>
           ELSE \A k \in IconKeys : Untouched(AlbumsOut[i], AlbumsIn[i], k)

C6_Witness == PageRendered /\ Len(AlbumsIn) = 2 /\ AlbumsIn[1] = AlbumBoth /\ AlbumsIn[2] = AlbumOwnIcon /\ AlbumsOut[1]["icon_alt"] = <<"D","r","o","p","b","o","x">> /\ AlbumsOut[2]["icon_alt"] = <<"M","i","n","e">>

\* C7: for every album of a fetched manifest the handler sets cover_url
\* exactly when the album has a cover_path, to the thumbnail route
\* followed by ?path= and the URL-escaped cover_path (spaces
\* percent-encoded, slashes preserved), whatever icon branch is taken.
C7_CoverUrl == PageRendered => \A i \in 1..Len(AlbumsIn) :
    /\ "cover_path" \in DOMAIN AlbumsIn[i] => ("cover_url" \in DOMAIN AlbumsOut[i] /\ AlbumsOut[i]["cover_url"] = <<"/","a","l","b","u","m","s","/","t","h","u","m","b","n","a","i","l","?","p","a","t","h","=">> \o quote(AlbumsIn[i]["cover_path"]))
    /\ ("cover_path" \in DOMAIN AlbumsIn[i] /\ AlbumsIn[i]["cover_path"] = <<"p","h","o","t","o","s","/","a"," ","b",".","j","p","g">>) => AlbumsOut[i]["cover_url"] = <<"/","a","l","b","u","m","s","/","t","h","u","m","b","n","a","i","l","?","p","a","t","h","=","p","h","o","t","o","s","/","a","%","2","0","b",".","j","p","g">>
    /\ "cover_path" \notin DOMAIN AlbumsIn[i] => Untouched(AlbumsOut[i], AlbumsIn[i], "cover_url")

C7_Witness == PageRendered /\ Len(AlbumsIn) = 2 /\ AlbumsIn[1] = AlbumDropbox /\ AlbumsIn[2] = AlbumGoogle /\ AlbumsOut[1]["cover_url"] = <<"/","a","l","b","u","m","s","/","t","h","u","m","b","n","a","i","l","?","p","a","t","h","=","p","h","o","t","o","s","/","a","%","2","0","b",".","j","p","g">> /\ "cover_url" \notin DOMAIN AlbumsOut[2]

\* some header of the fetch carries the credential
CarriesToken(headers) == \E h \in DOMAIN headers : Contains(headers[h], ACCESS_TOKEN)

\* C8: the credential is sent only in the Authorization header of outbound
\* thumbnail fetches to the fixed upstream base, and every such fetch
\* carries it; it is never part of the manifest fetch and the handlers
\* never write it into a response.
C8_CredentialConfinement == \A r \in Reqs :
    /\ \A i \in 1..Len(sent[r]) :
        /\ ~Contains(sent[r][i].url, ACCESS_TOKEN)
        /\ IsAlbums(r) => (sent[r][i].url = CFG_URL /\ ~CarriesToken(sent[r][i].headers))
        /\ IsThumbnail(r) => (StartsWith(sent[r][i].url, THUMBNAIL_BASE) /\ DOMAIN sent[r][i].headers = {"Authorization"} /\ sent[r][i].headers["Authorization"] = <<"B","e","a","r","e","r"," ">> \o ACCESS_TOKEN)
    /\ ~Contains(response[r].body, ACCESS_TOKEN)
    /\ \A i \in 1..Len(response[r].content_type) : ~Contains(response[r].content_type[i], ACCESS_TOKEN)

C8_Witness == \E r, q \in Reqs : /\ IsAlbums(r) /\ pc[r] = "done" /\ Len(sent[r]) = 1 /\ response[r].body # <<>>
                                 /\ IsThumbnail(q) /\ pc[q] = "done" /\ Len(sent[q]) = 1 /\ response[q].body # <<>>

\* the path parameter of the request passes both validation checks
PathValid(r) == HasPathParam(request[r]) /\ StartsWith(PathParam(request[r]), PHOTOS)

\* C9: every albums request issues exactly one manifest fetch of its own
\* and answers from it, every thumbnail request issues exactly one upstream
\* fetch when its path passes validation and none otherwise, and no fetch
\* is repeated: the fetch result is followed by the terminal response.
C9_NoRetryNoCache == \A r \in Reqs :
    /\ pc[r] = "idle" => (sent[r] = <<>> /\ replies[r] = <<>>)
    /\ pc[r] = "fetching" => (Len(sent[r]) = 1 /\ replies[r] = <<>>)
    /\ (pc[r] = "done" /\ IsAlbums(r)) => (Len(sent[r]) = 1 /\ Len(replies[r]) = 1)
    /\ (pc[r] = "done" /\ IsThumbnail(r)) => (Len(sent[r]) = (IF PathValid(r) THEN 1 ELSE 0) /\ Len(replies[r]) = Len(sent[r]))
    /\ (pc[r] = "done" /\ IsAlbums(r) /\ replies[r][1].kind = "ok" /\ replies[r][1].json_valid) => (Len(rendered[r]) = 1 /\ rendered[r][1].title = replies[r][1].cfg.title /\ Len(rendered[r][1].albums) = Len(replies[r][1].cfg.albums) /\ \A i \in 1..Len(rendered[r][1].albums) : rendered[r][1].albums[i]["url"] = replies[r][1].cfg.albums[i]["url"])
    /\ (pc[r] = "done" /\ IsAlbums(r) /\ replies[r][1].kind # "ok") => rendered[r] = <<>>

C9_Witness == \E r, q \in Reqs : /\ IsAlbums(r) /\ pc[r] = "done" /\ replies[r][1].kind = "URLError"
                                 /\ IsAlbums(q) /\ pc[q] = "done" /\ replies[q][1].kind = "ok" /\ replies[q][1].json_valid /\ Len(rendered[q][1].albums) = 2

\* album i of the page is the one whose cover the browser requested
Followed(i) == pc[2] # "idle" /\ "cover_path" \in DOMAIN AlbumsIn[i] /\ "cover_url" \in DOMAIN AlbumsOut[i] /\ AlbumsOut[i]["cover_url"] = request[2]

\* C10: a GET on the cover_url generated for an album reaches
\* ThumbnailHandler with a path parameter equal to the album's cover_path;
\* when cover_path starts with photos the request passes both checks and
\* fetches the base URL joined with the escaped cover_path and ?size=l,
\* otherwise it is answered with 403.
C10_CoverRoundTrip == PageRendered => \A i \in 1..Len(AlbumsIn) : Followed(i) =>
    /\ RouteOf(request[2]) = "thumbnail"
    /\ HasPathParam(request[2])
    /\ PathParam(request[2]) = AlbumsIn[i]["cover_path"]
    /\ IF StartsWith(AlbumsIn[i]["cover_path"], PHOTOS)
       THEN response[2].status \notin {400, 403} /\ Len(sent[2]) = 1 /\ sent[2][1].url = THUMBNAIL_BASE \o quote(AlbumsIn[i]["cover_path"]) \o <<"?","s","i","z","e","=","l">>
       ELSE pc[2] = "done" /\ response[2].status = 403 /\ sent[2] = <<>>

C10_Witness == PageRendered /\ \E i \in 1..Len(AlbumsIn) : Followed(i) /\ AlbumsIn[i]["cover_path"] = <<"p","h","o","t","o","s","/","a","+","b","%">> /\ pc[2] = "done" /\ response[2].status = 200 /\ response[2].body = <<"B">>

C10_WitnessForbidden == PageRendered /\ \E i \in 1..Len(AlbumsIn) : Followed(i) /\ AlbumsIn[i]["cover_path"] = <<>> /\ response[2].status = 403
====
